---------------------------- MODULE Spec2Model ----------------------------
(***************************************************************************)
(* Model of statistics/JupyterNotebooks/chap08ex.ipynb: the estimation     *)
(* experiments of Think Stats chapter 8 (RMSE, MeanError, Estimate1..4,    *)
(* SimulateSample, SimulateGame, ManyGames).                               *)
(*                                                                         *)
(* Numbers.  The notebook computes with IEEE-754 binary floating point     *)
(* (Python floats and numpy float64): every +, -, *, / and sqrt rounds its *)
(* exact result to the nearest representable value, ties to even, and      *)
(* numpy's division and mean never raise: x/0 is inf or nan.  The model    *)
(* keeps exactly that arithmetic with a significand of Prec bits instead   *)
(* of 53 (TLC's integers are 32 bits wide).  The exponent is unbounded:    *)
(* overflow and underflow are outside the modelled range of magnitudes,    *)
(* and the sign of zero is not modelled.                                   *)
(***************************************************************************)
EXTENDS Integers, Sequences, FiniteSets, TLC

\* Bits of the significand of a float (53 in the code).
Prec == 3

Lo == 2 ^ (Prec - 1)
Hi == 2 ^ Prec

Abs(x) == IF x < 0 THEN -x ELSE x
Sgn(x) == IF x < 0 THEN -1 ELSE IF x > 0 THEN 1 ELSE 0
Min(x, y) == IF x <= y THEN x ELSE y

\* A float: finite m * 2^e (m = 0, or Lo <= |m| < Hi), an infinity, or nan.
Fin(m, e) == [cls |-> "fin", m |-> m, e |-> e]
Zero == Fin(0, 0)
NaN == [cls |-> "nan", m |-> 0, e |-> 0]
Inf(s) == [cls |-> "inf", m |-> s, e |-> 0]

IsNaN(a) == a.cls = "nan"
IsInf(a) == a.cls = "inf"
IsFinite(a) == a.cls = "fin"

\* Scale n/d * 2^e (n > 0, d > 0) until Lo <= n/d < Hi.
RECURSIVE Norm(_, _, _)
Norm(n, d, e) ==
    IF n < d * Lo THEN Norm(2 * n, d, e - 1)
    ELSE IF n >= d * Hi THEN Norm(n, 2 * d, e + 1)
    ELSE <<n, d, e>>

\* Round sgn * (n/d) * 2^e to the nearest float, ties to even.
Round(sgn, n, d, e) ==
    IF n = 0 \/ sgn = 0 THEN Zero
    ELSE LET t == Norm(n, d, e)
             q == t[1] \div t[2]
             r == t[1] % t[2]
             up == 2 * r > t[2] \/ (2 * r = t[2] /\ q % 2 = 1)
             m == IF up THEN q + 1 ELSE q
         IN IF m = Hi THEN Fin(sgn * Lo, t[3] + 1) ELSE Fin(sgn * m, t[3])

\* The float nearest to the integer k (a literal such as 2, or len(xs)).
FromInt(k) == Round(Sgn(k), Abs(k), 1, 0)

FNeg(a) == IF IsNaN(a) THEN NaN ELSE [a EXCEPT !.m = -a.m]

\* a + b
FAdd(a, b) ==
    IF IsNaN(a) \/ IsNaN(b) THEN NaN
    ELSE IF IsInf(a) /\ IsInf(b) THEN (IF a.m = b.m THEN a ELSE NaN)
    ELSE IF IsInf(a) THEN a
    ELSE IF IsInf(b) THEN b
    ELSE LET e == Min(a.e, b.e)
             s == a.m * 2 ^ (a.e - e) + b.m * 2 ^ (b.e - e)
         IN Round(Sgn(s), Abs(s), 1, e)

\* a - b
FSub(a, b) == FAdd(a, FNeg(b))

\* a * b
FMul(a, b) ==
    IF IsNaN(a) \/ IsNaN(b) THEN NaN
    ELSE IF IsInf(a) \/ IsInf(b)
         THEN (IF a.m = 0 \/ b.m = 0 THEN NaN ELSE Inf(Sgn(a.m) * Sgn(b.m)))
    ELSE Round(Sgn(a.m) * Sgn(b.m), Abs(a.m) * Abs(b.m), 1, a.e + b.e)

\* a / b as numpy divides: a nonzero number over zero is an infinity and 0/0
\* is nan (a RuntimeWarning, no exception).
FDiv(a, b) ==
    IF IsNaN(a) \/ IsNaN(b) THEN NaN
    ELSE IF IsInf(a) THEN (IF IsInf(b) THEN NaN
                           ELSE Inf(a.m * (IF b.m < 0 THEN -1 ELSE 1)))
    ELSE IF IsInf(b) THEN Zero
    ELSE IF b.m = 0 THEN (IF a.m = 0 THEN NaN ELSE Inf(Sgn(a.m)))
    ELSE Round(Sgn(a.m) * Sgn(b.m), Abs(a.m), Abs(b.m), a.e - b.e)

\* np.sqrt(a)
FSqrt(a) ==
    IF IsNaN(a) \/ a.m < 0 THEN NaN
    ELSE IF IsInf(a) \/ a.m = 0 THEN a
    ELSE LET t == IF (a.e - (Prec + 1)) % 2 = 0 THEN Prec + 1 ELSE Prec + 2
             x == a.m * 2 ^ t
             s == CHOOSE k \in Hi..(2 * Hi) : k * k <= x /\ x < (k + 1) * (k + 1)
             q == s \div 2
             up == s % 2 = 1 /\ (s * s # x \/ q % 2 = 1)
             m == IF up THEN q + 1 ELSE q
             e == ((a.e - t) \div 2) + 1
         IN IF m = Hi THEN Fin(Lo, e + 1) ELSE Fin(m, e)

\* a < b (false when either is nan)
FLess(a, b) ==
    IF IsNaN(a) \/ IsNaN(b) THEN FALSE
    ELSE IF IsInf(a) THEN a.m < 0 /\ ~(IsInf(b) /\ b.m < 0)
    ELSE IF IsInf(b) THEN b.m > 0
    ELSE LET e == Min(a.e, b.e)
         IN a.m * 2 ^ (a.e - e) < b.m * 2 ^ (b.e - e)

\* a >= b (false when either is nan)
FGe(a, b) == ~IsNaN(a) /\ ~IsNaN(b) /\ ~FLess(a, b)

----------------------------------------------------------------------------
(* numpy and thinkstats2 helpers the notebook calls *)

RECURSIVE SumFrom(_, _, _)
SumFrom(xs, k, acc) ==
    IF k > Len(xs) THEN acc ELSE SumFrom(xs, k + 1, FAdd(acc, xs[k]))

\* np.sum over fewer than 8 items: a left-to-right sum starting from 0.
Sum(xs) == SumFrom(xs, 1, Zero)

\* np.mean(xs): the sum divided by the count; nan (0/0) for an empty xs.
MeanEmptyZero(xs) == IF xs = <<>> THEN Zero ELSE FDiv(Sum(xs), FromInt(Len(xs)))
Mean(xs) == FDiv(Sum(xs), FromInt(Len(xs)))

RECURSIVE InsertSorted(_, _)
InsertSorted(s, v) ==
    IF s = <<>> THEN <<v>>
    ELSE IF FLess(v, Head(s)) THEN <<v>> \o s
    ELSE <<Head(s)>> \o InsertSorted(Tail(s), v)

RECURSIVE Sorted(_)
Sorted(xs) == IF xs = <<>> THEN <<>> ELSE InsertSorted(Sorted(Tail(xs)), Head(xs))

\* np.median(xs): the mean of the middle item, or of the two middle items.
Median(xs) ==
    LET s == Sorted(xs)
        k == Len(xs)
    IN IF k = 0 THEN NaN
       ELSE IF k % 2 = 1 THEN Mean(<<s[(k + 1) \div 2]>>)
       ELSE Mean(<<s[k \div 2], s[(k \div 2) + 1]>>)

\* thinkstats2.Median(xs) = Cdf(xs).Value(0.5): the smallest sample value x
\* whose cumulative fraction count(<= x)/len(xs) is at least 0.5.
TsMedian(xs) ==
    LET s == Sorted(xs)
        k == CHOOSE j \in 1..Len(xs) :
                 /\ 2 * j >= Len(xs)
                 /\ \A h \in 1..(j - 1) : 2 * h < Len(xs)
    IN s[k]

\* The sum of squared deviations from the sample mean, as np.var forms it.
SumSqDev(xs) ==
    LET arrmean == Mean(xs)
        sq == [k \in 1..Len(xs) |->
                  FMul(FSub(xs[k], arrmean), FSub(xs[k], arrmean))]
    IN Sum(sq)

\* np.var(xs, ddof): the sum of squared deviations over max(n - ddof, 0).
VarAddDdof(xs, ddof) == FDiv(SumSqDev(xs), FromInt(Len(xs) + ddof))
VarIgnoreDdof(xs, ddof) == FDiv(SumSqDev(xs), FromInt(Len(xs)))
VarClampDof(xs, ddof) ==
    FDiv(SumSqDev(xs), FromInt(IF Len(xs) - ddof > 1 THEN Len(xs) - ddof ELSE 1))
Var(xs, ddof) ==
    FDiv(SumSqDev(xs), FromInt(IF Len(xs) - ddof > 0 THEN Len(xs) - ddof ELSE 0))

\* np.log(2)
Ln2 == Round(1, 693147, 1000000, 0)

----------------------------------------------------------------------------
(* RMSE and MeanError *)

RMSENoSqrt(estimates, actual) ==
    LET e2 == [k \in 1..Len(estimates) |->
                  FMul(FSub(estimates[k], actual), FSub(estimates[k], actual))]
    IN Mean(e2)
RMSENoActual(estimates, actual) ==
    LET e2 == [k \in 1..Len(estimates) |-> FMul(estimates[k], estimates[k])]
    IN FSqrt(Mean(e2))
RMSENoSquare(estimates, actual) ==
    LET e2 == [k \in 1..Len(estimates) |-> FSub(estimates[k], actual)]
    IN FSqrt(Mean(e2))
RMSE(estimates, actual) ==
    LET e2 == [k \in 1..Len(estimates) |->
                  FMul(FSub(estimates[k], actual), FSub(estimates[k], actual))]
        mse == Mean(e2)
    IN FSqrt(mse)

MeanErrorNoDivide(estimates, actual) ==
    LET errors == [k \in 1..Len(estimates) |-> FSub(estimates[k], actual)]
    IN Sum(errors)
MeanErrorFlipped(estimates, actual) ==
    LET errors == [k \in 1..Len(estimates) |-> FSub(actual, estimates[k])]
    IN Mean(errors)
MeanError(estimates, actual) ==
    LET errors == [k \in 1..Len(estimates) |-> FSub(estimates[k], actual)]
    IN Mean(errors)

----------------------------------------------------------------------------
(* State *)

VARIABLES
    pc,          \* "idle", "loop" (inside for _ in range(iters)), "done"
    fn,          \* the experiment running: Estimate1..4 or SimulateSample
    n,           \* its sample size
    iters,       \* its number of iterations
    i,           \* iterations completed
    rng,         \* the random generator: its seed and draws delivered
    estimates1,  \* means / estimates1 / xbars
    estimates2,  \* medians / estimates2
    summary,     \* the figures printed or returned after the loop
    trials,      \* history: the sample xs of every iteration so far
    pass,        \* history: 1; 2 or 3 when the run repeats the one before
    first,       \* history: what the repeated run produced
    estimates,   \* argument of a direct RMSE / MeanError call
    actual,      \* argument of a direct RMSE / MeanError call
    shift,       \* the constant c added to every estimate
    out,         \* outcome of the direct call
    gpc,         \* "idle", "for" (ManyGames loop), "game" (while True), "done"
    caller,      \* who called SimulateGame: "ManyGames" or "direct"
    glam,        \* lam, the argument of ManyGames / SimulateGame
    gi,          \* ManyGames: the next value of i in range(1, 10000)
    goalslist,   \* ManyGames: its list goals
    gsummary,    \* ManyGames: the list handed to RMSE, MeanError; the prints
    t,           \* SimulateGame: elapsed time
    goals,       \* SimulateGame: goals counted
    L,           \* SimulateGame: the value returned
    hist         \* history of the game under way and of the calls made

vars == <<pc, fn, n, iters, i, rng, estimates1, estimates2, summary, trials,
          pass, first, estimates, actual, shift, out,
          gpc, caller, glam, gi, goalslist, gsummary, t, goals, L, hist>>
simVars == <<pc, fn, n, iters, i, rng, estimates1, estimates2, summary, trials,
             pass, first>>
errVars == <<estimates, actual, shift, out>>
gameVars == <<gpc, caller, glam, gi, goalslist, gsummary, t, goals, L, hist>>

\* Bounds of the model.
MaxN == 3
MaxIters == 2
Period == 3
MaxLen == 2

\* Parameters fixed in the notebook.
mu == 0
sigma == 1
lam == 2

Fns == {"Estimate1", "Estimate2", "SimulateSample", "Estimate3", "Estimate4"}
RateFns == {"Estimate3", "Estimate4"}

----------------------------------------------------------------------------
(* The random source.  A generator is a deterministic stream fixed by its  *)
(* seed; an unseeded run is a run with some seed.  Stream number s repeats *)
(* the Period digits of s in base Len(GaussInts), so the seeds together    *)
(* deliver every sample of up to Period draws.  Gaussian draws are any     *)
(* reals, exponential draws are >= 0 (0.0 when the uniform variate is 0).  *)

GaussInts == <<-1, 0, 5>>
ExpoInts == <<0, 1, 3>>
Base == Len(GaussInts)
Seeds == 0..(Base ^ Period - 1)

Digit(s, k) == (s \div (Base ^ (k % Period))) % Base

\* The k-th value (from 0) delivered by the generator seeded with s.
Draw(f, s, k) ==
    IF f \in RateFns THEN FromInt(ExpoInts[Digit(s, k) + 1])
    ELSE FromInt(GaussInts[Digit(s, k) + 1])

\* xs = [random.gauss(mu, sigma) for _ in range(n)], np.random.normal(mu,
\* sigma, n), np.random.exponential(1.0/lam, n): the next nn draws.
Sample(f, g, nn) == [k \in 1..nn |-> Draw(f, g.seed, g.pos + k - 1)]

AdvanceStuck(g, nn) == g
Advance(g, nn) == [g EXCEPT !.pos = g.pos + nn]

\* The generator left where the last run left it.  Stream s from draw p on is
\* the stream of the seed whose digits are those of s rotated by p, so the
\* state is written as that seed at position 0.
Continue(g) ==
    [seed |-> LET d == [k \in 0..(Period - 1) |->
                           Digit(g.seed, g.pos + k) * Base ^ k]
                  sum[k \in 0..Period] ==
                      IF k = 0 THEN 0 ELSE sum[k - 1] + d[k - 1]
              IN sum[Period],
     pos |-> 0]

----------------------------------------------------------------------------
(* The experiments *)

\* L = 1 / np.mean(xs)
RateGuarded(m) == IF m = Zero THEN Zero ELSE FDiv(FromInt(1), m)
Rate(m) == FDiv(FromInt(1), m)

\* Lm = np.log(2) / thinkstats2.Median(xs)
MedianRate(m) == FDiv(Ln2, m)

\* The first estimate an iteration appends, from its sample xs.
Estimator1(f, xs) ==
    CASE f = "Estimate1" -> Mean(xs)
      [] f = "Estimate2" -> Var(xs, 0)
      [] f = "SimulateSample" -> Mean(xs)
      [] OTHER -> Rate(Mean(xs))

\* The second estimate an iteration appends (SimulateSample has none).
Estimator2(f, xs) ==
    CASE f = "Estimate1" -> Median(xs)
      [] f = "Estimate2" -> Var(xs, 1)
      [] f = "SimulateSample" -> Zero
      [] OTHER -> MedianRate(TsMedian(xs))

\* One pass of the loop body: draw xs, apply both estimators to it.
TrialRedraw(f, g, nn) ==
    [xs |-> Sample(f, g, nn),
     a |-> Estimator1(f, Sample(f, g, nn)),
     b |-> Estimator2(f, Sample(f, Advance(g, nn), nn)),
     rng |-> Advance(g, 2 * nn)]
Trial(f, g, nn) ==
    LET xs == Sample(f, g, nn)
    IN [xs |-> xs, a |-> Estimator1(f, xs), b |-> Estimator2(f, xs),
        rng |-> Advance(g, nn)]

\* range(iters): the number of passes of the loop.
RangePlusOne(it) == it + 1
RangeFromOne(it) == IF it > 0 THEN it - 1 ELSE 0
Range(it) == it

\* means = [], medians = [] at the top of every experiment.
StaleList == estimates1
EmptyList == <<>>

\* means.append(xbar)
PrependEstimate(list, v) == <<v>> \o list
AppendEstimate(list, v) == Append(list, v)

\* What the experiment prints or returns after its loop.
Summary(f, e1, e2) ==
    CASE f = "Estimate1" -> <<RMSE(e1, FromInt(mu)), RMSE(e2, FromInt(mu))>>
      [] f = "Estimate2" -> <<MeanError(e1, FromInt(sigma * sigma)),
                              MeanError(e2, FromInt(sigma * sigma))>>
      [] f = "SimulateSample" -> <<>>
      [] f = "Estimate3" -> <<RMSE(e1, FromInt(lam)), RMSE(e2, FromInt(lam)),
                              MeanError(e1, FromInt(lam)),
                              MeanError(e2, FromInt(lam))>>
      [] OTHER -> <<RMSE(e1, FromInt(lam))>>

NoFirst == [set |-> FALSE, seed |-> 0, e1 |-> <<>>, e2 |-> <<>>, summary |-> <<>>]
NoOut == [op |-> "none", raised |-> FALSE, val |-> Zero]

Start(f, nn, it, s) ==
    /\ pc' = "loop"
    /\ fn' = f
    /\ n' = nn
    /\ iters' = it
    /\ i' = 0
    /\ rng' = [seed |-> s, pos |-> 0]
    /\ estimates1' = EmptyList
    /\ estimates2' = <<>>
    /\ summary' = <<>>
    /\ trials' = <<>>

\* A call of an experiment, with the generator in the state of seed s.
Call(f, nn, it, s) ==
    /\ pc = "idle"
    /\ Start(f, nn, it, s)
    /\ pass' = 1
    /\ first' = NoFirst
    /\ UNCHANGED errVars
    /\ UNCHANGED gameVars

\* The same call once more, the generator seeded as before.
CallAgain ==
    /\ pc = "done"
    /\ pass = 1
    /\ Start(fn, n, iters, rng.seed)
    /\ pass' = 2
    /\ first' = [set |-> TRUE, seed |-> rng.seed, e1 |-> estimates1,
                 e2 |-> estimates2, summary |-> summary]
    /\ UNCHANGED errVars
    /\ UNCHANGED gameVars

\* The same call once more with the generator not seeded again: it goes on
\* from where the run before left it.
CallNext ==
    /\ pc = "done"
    /\ pass = 1
    /\ Start(fn, n, iters, Continue(rng).seed)
    /\ pass' = 3
    /\ first' = [set |-> TRUE, seed |-> rng.seed, e1 |-> estimates1,
                 e2 |-> estimates2, summary |-> summary]
    /\ UNCHANGED errVars
    /\ UNCHANGED gameVars

\* The for statement takes one more value of the range and the body runs.
LoopPass ==
    /\ pc = "loop"
    /\ i < Range(iters)
    /\ i' = i + 1
    /\ pc' = pc

\* The range is used up: control passes to the statements after the loop.
LoopExit ==
    /\ pc = "loop"
    /\ i >= Range(iters)
    /\ i' = i
    /\ pc' = "done"

\* One iteration of the loop.
Iterate ==
    /\ LoopPass
    /\ LET trial == Trial(fn, rng, n)
       IN /\ estimates1' = AppendEstimate(estimates1, trial.a)
          /\ estimates2' = IF fn = "SimulateSample" THEN estimates2
                           ELSE AppendEstimate(estimates2, trial.b)
          /\ rng' = trial.rng
          /\ trials' = Append(trials, trial.xs)
    /\ UNCHANGED <<fn, n, iters, summary, pass, first>>
    /\ UNCHANGED errVars
    /\ UNCHANGED gameVars

\* The loop is over: print or return the summary.
Finish ==
    /\ LoopExit
    /\ summary' = Summary(fn, estimates1, estimates2)
    /\ UNCHANGED <<fn, n, iters, rng, estimates1, estimates2, trials, pass,
                   first>>
    /\ UNCHANGED errVars
    /\ UNCHANGED gameVars

\* No game played yet.
NoHist == [draws |-> 0, within |-> 0, drawn |-> Zero, before |-> Zero,
           minDraw |-> Inf(1), exact |-> TRUE, calls |-> 0, lams |-> {}]
NoGames == [set |-> FALSE, list |-> <<>>, rmse |-> Zero, me |-> Zero]

GameIdle ==
    /\ gpc = "idle"
    /\ caller = "direct"
    /\ glam = 0
    /\ gi = 0
    /\ goalslist = <<>>
    /\ gsummary = NoGames
    /\ t = Zero
    /\ goals = 0
    /\ L = 0
    /\ hist = NoHist

SimIdle ==
    /\ pc = "idle"
    /\ fn = "Estimate1"
    /\ n = 1
    /\ iters = 0
    /\ i = 0
    /\ rng = [seed |-> 0, pos |-> 0]
    /\ estimates1 = <<>>
    /\ estimates2 = <<>>
    /\ summary = <<>>
    /\ trials = <<>>
    /\ pass = 1
    /\ first = NoFirst

\* The experiment has returned: its locals are gone.
Return ==
    /\ pc = "done"
    /\ pc' = "idle"
    /\ fn' = "Estimate1"
    /\ n' = 1
    /\ iters' = 0
    /\ i' = 0
    /\ rng' = [seed |-> 0, pos |-> 0]
    /\ estimates1' = <<>>
    /\ estimates2' = <<>>
    /\ summary' = <<>>
    /\ trials' = <<>>
    /\ pass' = 1
    /\ first' = NoFirst
    /\ UNCHANGED errVars
    /\ UNCHANGED gameVars

Init ==
    /\ SimIdle
    /\ GameIdle
    /\ estimates = <<>>
    /\ actual = Zero
    /\ shift = Zero
    /\ out = NoOut

Next ==
    \/ \E f \in Fns, nn \in 1..MaxN, it \in 0..MaxIters, s \in Seeds :
           Call(f, nn, it, s)
    \/ CallAgain
    \/ CallNext
    \/ Iterate
    \/ Finish
    \/ Return

Spec == Init /\ [][Next]_vars

\* The interpreter runs a started loop to its end: single-threaded, no
\* suspension points.
FairSpec == Spec /\ WF_<<pc, i>>(LoopPass) /\ WF_<<pc, i>>(LoopExit)

----------------------------------------------------------------------------
(* Direct calls of RMSE and MeanError *)

\* Values of actual and c, and values of an estimate: an estimate can also be
\* +inf or nan (Estimate3 and Estimate2 produce such estimates).
ErrVals == {FromInt(k) : k \in {-3, 0, 1, 2, 6, 7}}
EstVals == ErrVals \cup {Inf(1), NaN}
SeqsUpTo(S, k) == UNION {[1..j -> S] : j \in 0..k}

\* [e + c for e in estimates]
Shifted(es, c) == [k \in 1..Len(es) |-> FAdd(es[k], c)]

InitErr ==
    /\ SimIdle
    /\ GameIdle
    /\ estimates \in SeqsUpTo(EstVals, MaxLen)
    /\ actual \in ErrVals
    /\ shift \in ErrVals
    /\ out = NoOut

CallRMSE ==
    /\ out.op = "none"
    /\ out' = [op |-> "RMSE", raised |-> FALSE, val |-> RMSE(estimates, actual)]
    /\ UNCHANGED <<estimates, actual, shift>>
    /\ UNCHANGED simVars
    /\ UNCHANGED gameVars

CallMeanError ==
    /\ out.op = "none"
    /\ out' = [op |-> "MeanError", raised |-> FALSE,
               val |-> MeanError(estimates, actual)]
    /\ UNCHANGED <<estimates, actual, shift>>
    /\ UNCHANGED simVars
    /\ UNCHANGED gameVars

CallMeanErrorShifted ==
    /\ out.op = "none"
    /\ out' = [op |-> "MeanErrorShifted", raised |-> FALSE,
               val |-> MeanError(Shifted(estimates, shift), actual)]
    /\ UNCHANGED <<estimates, actual, shift>>
    /\ UNCHANGED simVars
    /\ UNCHANGED gameVars

NextErr == CallRMSE \/ CallMeanError \/ CallMeanErrorShifted

SpecErr == InitErr /\ [][NextErr]_vars

----------------------------------------------------------------------------
(* Exactness of single float operations: the rounded result is the exact   *)
(* one.                                                                    *)

\* m1 * 2^e1 = m2 * 2^e2
SameValue(m1, e1, m2, e2) ==
    LET e == Min(e1, e2)
    IN m1 * 2 ^ (e1 - e) = m2 * 2 ^ (e2 - e)

AddExact(a, b) ==
    /\ IsFinite(a) /\ IsFinite(b)
    /\ LET e == Min(a.e, b.e)
           r == FAdd(a, b)
       IN SameValue(a.m * 2 ^ (a.e - e) + b.m * 2 ^ (b.e - e), e, r.m, r.e)

DivExact(a, b) ==
    /\ IsFinite(a) /\ IsFinite(b) /\ b.m # 0
    /\ LET q == FDiv(a, b)
       IN SameValue(q.m * b.m, q.e + b.e, a.m, a.e)

RECURSIVE SumExactFrom(_, _, _)
SumExactFrom(xs, k, acc) ==
    \/ k > Len(xs)
    \/ AddExact(acc, xs[k]) /\ SumExactFrom(xs, k + 1, FAdd(acc, xs[k]))

\* No operation of MeanError(es, a) rounds.
MeanErrorExact(es, a) ==
    LET errors == [k \in 1..Len(es) |-> FSub(es[k], a)]
    IN /\ \A k \in 1..Len(es) : AddExact(es[k], FNeg(a))
       /\ SumExactFrom(errors, 1, Zero)
       /\ SameValue(FromInt(Len(es)).m, FromInt(Len(es)).e, Len(es), 0)
       /\ DivExact(Sum(errors), FromInt(Len(es)))

----------------------------------------------------------------------------
(* Claims about RMSE and MeanError, checked under SpecErr *)

\* C1: for every true value a, RMSE([a], a) and MeanError([a], a) return 0.
SingletonZeroError ==
    (out.op \in {"RMSE", "MeanError"} /\ estimates = <<actual>>)
        => (~out.raised /\ out.val = Zero)

SingletonCalled ==
    out.op = "RMSE" /\ estimates = <<actual>> /\ actual # Zero

\* C2 as stated: RMSE(estimates, actual) >= 0 for all estimate sequences.
RMSENonNegativeAll == out.op = "RMSE" => FGe(out.val, Zero)

\* C2 amended: RMSE(estimates, actual) >= 0 for every non-empty estimate
\* sequence that holds no nan; for the empty sequence, and for one holding a
\* nan, the result is nan, which is not >= 0.
RMSENonNegative ==
    out.op = "RMSE" =>
        IF estimates = <<>> \/ \E k \in 1..Len(estimates) : IsNaN(estimates[k])
        THEN IsNaN(out.val) /\ ~FGe(out.val, Zero)
        ELSE FGe(out.val, Zero)

RMSEPositiveCalled ==
    /\ out.op = "RMSE"
    /\ Len(estimates) >= 2
    /\ FLess(estimates[1], actual)
    /\ FLess(Zero, out.val)
    /\ IsFinite(out.val)

\* C3 as stated: for every non-empty estimate sequence,
\* MeanError([e + c for e in estimates], actual) = MeanError(estimates, actual) + c.
MeanErrorShiftAlways ==
    (out.op = "MeanErrorShifted" /\ estimates # <<>>)
        => out.val = FAdd(MeanError(estimates, actual), shift)

\* C3 amended: the equality holds whenever no floating-point operation on
\* either side rounds (the additions e + c, the subtractions of actual, the
\* sums, the divisions by the count, and the final + c).
MeanErrorShiftExact ==
    (/\ out.op = "MeanErrorShifted"
     /\ estimates # <<>>
     /\ \A k \in 1..Len(estimates) : AddExact(estimates[k], shift)
     /\ MeanErrorExact(Shifted(estimates, shift), actual)
     /\ MeanErrorExact(estimates, actual)
     /\ AddExact(MeanError(estimates, actual), shift))
        => out.val = FAdd(MeanError(estimates, actual), shift)

ShiftedExactCalled ==
    /\ out.op = "MeanErrorShifted"
    /\ Len(estimates) >= 2
    /\ estimates[1] # estimates[2]
    /\ shift # Zero
    /\ actual # Zero
    /\ \A k \in 1..Len(estimates) : AddExact(estimates[k], shift)
    /\ MeanErrorExact(Shifted(estimates, shift), actual)
    /\ MeanErrorExact(estimates, actual)
    /\ AddExact(MeanError(estimates, actual), shift)

\* C4 as stated: RMSE and MeanError of an empty sequence fail (InvalidInput)
\* and return no result.
EmptyRaises ==
    (out.op \in {"RMSE", "MeanError"} /\ estimates = <<>>) => out.raised

\* C4 amended: RMSE and MeanError of an empty sequence do not fail; they
\* return nan (numpy's mean of an empty list, 0/0).
EmptyReturnsNaN ==
    (out.op \in {"RMSE", "MeanError"} /\ estimates = <<>>)
        => (~out.raised /\ IsNaN(out.val))

EmptyCalled == out.op = "MeanError" /\ estimates = <<>>

----------------------------------------------------------------------------
(* Claims about the experiments, checked under Spec *)

\* The sample the generator delivers to iteration k of the current run.
TrialDraws(k) == Sample(fn, [seed |-> rng.seed, pos |-> (k - 1) * n], n)

\* C5: in every iteration all estimators are applied to the one sample
\* drawn in that iteration: entry k of every estimate list is computed from
\* the k-th sample, and the estimators consume no draws of their own.
SameSample ==
    /\ Len(estimates1) = Len(trials)
    /\ fn # "SimulateSample" => Len(estimates2) = Len(trials)
    /\ rng.pos = n * Len(trials)
    /\ \A k \in 1..Len(trials) :
           /\ trials[k] = TrialDraws(k)
           /\ estimates1[k] = Estimator1(fn, TrialDraws(k))
           /\ fn # "SimulateSample" => estimates2[k] = Estimator2(fn, TrialDraws(k))

TwoEstimatorsRan ==
    /\ pc = "done"
    /\ fn = "Estimate3"
    /\ Len(trials) = 2
    /\ trials[1] # trials[2]
    /\ estimates1[1] # estimates1[2]
    /\ estimates1[2] # estimates2[2]

\* C6: when a run ends, every estimate list has as many entries as the
\* iterations requested, and every sample drawn had the requested size n.
LengthsAtEnd ==
    pc = "done" =>
        /\ Len(estimates1) = iters
        /\ fn # "SimulateSample" => Len(estimates2) = iters
        /\ Len(trials) = iters
        /\ \A k \in 1..Len(trials) : Len(trials[k]) = n

RunEnded == pc = "done" /\ fn = "Estimate2" /\ iters = 2 /\ n = 3

\* C7: the same call made twice with the generator seeded alike produces
\* identical estimate lists (and summaries).
RepeatIdentical ==
    (pc = "done" /\ pass = 2) =>
        /\ first.set
        /\ estimates1 = first.e1
        /\ estimates2 = first.e2
        /\ summary = first.summary

RepeatedRunEnded ==
    /\ pc = "done"
    /\ pass = 2
    /\ fn = "SimulateSample"
    /\ Len(estimates1) = 2
    /\ estimates1[1] # estimates1[2]

\* C8 as stated: in Estimate2, for every sample with n >= 2,
\* n * (population variance) = (n - 1) * (sample variance).
VarianceProductsEqual ==
    (fn = "Estimate2" /\ n >= 2) =>
        \A k \in 1..Len(trials) :
            FMul(FromInt(n), estimates1[k]) = FMul(FromInt(n - 1), estimates2[k])

\* C8 amended: the two estimates are the same sum of squared deviations
\* divided by n and by n - 1, and n * population variance equals
\* (n - 1) * sample variance whenever both divisions are exact (then both
\* products are that sum); when a division rounds they can differ.
VarianceSameSum ==
    (fn = "Estimate2" /\ n >= 2) =>
        \A k \in 1..Len(trials) :
            LET ss == SumSqDev(trials[k])
            IN /\ estimates1[k] = FDiv(ss, FromInt(n))
               /\ estimates2[k] = FDiv(ss, FromInt(n - 1))
               /\ (DivExact(ss, FromInt(n)) /\ DivExact(ss, FromInt(n - 1)))
                      => /\ FMul(FromInt(n), estimates1[k]) = ss
                         /\ FMul(FromInt(n - 1), estimates2[k]) = ss

VarianceExactTrial ==
    /\ fn = "Estimate2"
    /\ n >= 3
    /\ Len(trials) >= 1
    /\ SumSqDev(trials[1]) # Zero
    /\ DivExact(SumSqDev(trials[1]), FromInt(n))
    /\ DivExact(SumSqDev(trials[1]), FromInt(n - 1))

\* C9 as stated: the mean, median and variance estimates are defined
\* (finite) numbers for every sample of size >= 1, both variance estimates
\* of Estimate2 at n = 1 included.
EstimatesAlwaysDefined ==
    (fn \in {"Estimate1", "Estimate2", "SimulateSample"} /\ n >= 1) =>
        /\ \A k \in 1..Len(estimates1) : IsFinite(estimates1[k])
        /\ \A k \in 1..Len(estimates2) : IsFinite(estimates2[k])

\* C9 amended: they are defined (finite) numbers for every sample of size
\* >= 1, except the divide-by-(n-1) variance at n = 1, which is nan (0/0).
EstimatesDefinedButDdof ==
    (fn \in {"Estimate1", "Estimate2", "SimulateSample"} /\ n >= 1) =>
        /\ \A k \in 1..Len(estimates1) : IsFinite(estimates1[k])
        /\ \A k \in 1..Len(estimates2) :
               IF fn = "Estimate2" /\ n = 1 THEN IsNaN(estimates2[k])
               ELSE IsFinite(estimates2[k])

VarianceOfOne == fn = "Estimate2" /\ n = 1 /\ Len(estimates2) = 2

----------------------------------------------------------------------------
(* Further claims about RMSE and MeanError, checked under SpecErr *)

\* No operation of np.mean(xs) rounds.
MeanExact(xs) ==
    /\ SumExactFrom(xs, 1, Zero)
    /\ SameValue(FromInt(Len(xs)).m, FromInt(Len(xs)).e, Len(xs), 0)
    /\ DivExact(Sum(xs), FromInt(Len(xs)))

\* C11 as stated: MeanError is positive exactly when the mean of the
\* estimates exceeds actual.
MeanErrorSignIsMeanSign ==
    (out.op = "MeanError" /\ estimates # <<>>)
        => (FLess(Zero, out.val) <=> FLess(actual, Mean(estimates)))

\* C11 amended: MeanError returns the sum of the deviations estimate - actual
\* divided by their count; it is positive whenever every estimate exceeds
\* actual and negative whenever every estimate is below actual; and it is
\* positive exactly when the mean of the estimates exceeds actual whenever
\* no floating-point operation of either mean rounds.
MeanErrorSigns ==
    (out.op = "MeanError" /\ estimates # <<>>) =>
        /\ out.val = FDiv(Sum([k \in 1..Len(estimates) |->
                                   FSub(estimates[k], actual)]),
                          FromInt(Len(estimates)))
        /\ (\A k \in 1..Len(estimates) : FLess(actual, estimates[k]))
               => FLess(Zero, out.val)
        /\ (\A k \in 1..Len(estimates) : FLess(estimates[k], actual))
               => FLess(out.val, Zero)
        /\ (MeanErrorExact(estimates, actual) /\ MeanExact(estimates))
               => (FLess(Zero, out.val) <=> FLess(actual, Mean(estimates)))

OverestimatesCalled ==
    /\ out.op = "MeanError"
    /\ Len(estimates) >= 2
    /\ estimates[1] # estimates[2]
    /\ \A k \in 1..Len(estimates) : FLess(actual, estimates[k])
    /\ MeanErrorExact(estimates, actual)
    /\ MeanExact(estimates)
    /\ IsFinite(out.val)

MulExact(a, b) ==
    /\ IsFinite(a) /\ IsFinite(b)
    /\ SameValue(a.m * b.m, a.e + b.e, FMul(a, b).m, FMul(a, b).e)

SqrtExact(a) ==
    /\ IsFinite(a) /\ a.m >= 0
    /\ SameValue(FSqrt(a).m * FSqrt(a).m, 2 * FSqrt(a).e, a.m, a.e)

\* No operation of RMSE(es, a) rounds.
RMSEExact(es, a) ==
    LET d == [k \in 1..Len(es) |-> FSub(es[k], a)]
        e2 == [k \in 1..Len(es) |-> FMul(d[k], d[k])]
    IN /\ \A k \in 1..Len(es) : AddExact(es[k], FNeg(a)) /\ MulExact(d[k], d[k])
       /\ MeanExact(e2)
       /\ SqrtExact(Mean(e2))

AllEqual(es) == \A k \in 1..Len(es) : es[k] = es[1]

\* C20 as stated (here for finite estimates): for every non-empty estimate
\* sequence RMSE^2 >= MeanError^2, with equality exactly when all estimates
\* are equal.
RMSEDominatesAlways ==
    (/\ out.op = "RMSE"
     /\ estimates # <<>>
     /\ \A k \in 1..Len(estimates) : IsFinite(estimates[k]))
        => LET r2 == FMul(out.val, out.val)
               m2 == FMul(MeanError(estimates, actual),
                          MeanError(estimates, actual))
           IN FGe(r2, m2) /\ (r2 = m2 <=> AllEqual(estimates))

\* C20 amended: RMSE^2 >= MeanError^2, with equality exactly when all
\* estimates are equal, whenever no floating-point operation of RMSE, of
\* MeanError or of the two squarings rounds.
RMSEDominatesExact ==
    (/\ out.op = "RMSE"
     /\ estimates # <<>>
     /\ RMSEExact(estimates, actual)
     /\ MeanErrorExact(estimates, actual)
     /\ MulExact(MeanError(estimates, actual), MeanError(estimates, actual)))
        => LET r2 == FMul(out.val, out.val)
               m2 == FMul(MeanError(estimates, actual),
                          MeanError(estimates, actual))
           IN FGe(r2, m2) /\ (r2 = m2 <=> AllEqual(estimates))

RMSEExactCalled ==
    /\ out.op = "RMSE"
    /\ Len(estimates) >= 2
    /\ ~AllEqual(estimates)
    /\ RMSEExact(estimates, actual)
    /\ MeanErrorExact(estimates, actual)
    /\ MulExact(MeanError(estimates, actual), MeanError(estimates, actual))
    /\ FLess(Zero, out.val)

---------------------------------------------------------------------------
\* Further claims about the experiments, checked under Spec and FairSpec.

FLe(a, b) == FGe(b, a)

IsPrefix(a, b) == Len(a) <= Len(b) /\ SubSeq(b, 1, Len(a)) = a

\* C13: while a run is under way its estimate lists only grow by appending:
\* every step keeps the entries already there, in place, the lists hold as
\* many entries as iterations are completed, and the step that computes the
\* summary after the loop leaves the lists as they are.
GrowsByAppending ==
    [][pc = "loop" =>
          /\ IsPrefix(estimates1, estimates1')
          /\ IsPrefix(estimates2, estimates2')
          /\ Len(estimates1') = i'
          /\ fn # "SimulateSample" => Len(estimates2') = i'
          /\ pc' = "done" =>
                 (estimates1' = estimates1 /\ estimates2' = estimates2)]_vars

SecondIterationDone ==
    /\ pc = "done"
    /\ fn = "Estimate1"
    /\ Len(estimates1) = 2
    /\ estimates1[1] # estimates1[2]
    /\ Len(summary) > 0

\* C14: every iteration draws n new values: it takes the n draws that follow
\* the ones taken before it, the generator moves on by n, and when the run
\* ends n * iters draws are consumed.
FreshDraws ==
    [][/\ (pc = "loop" /\ i' = i + 1) =>
              /\ rng'.seed = rng.seed
              /\ rng'.pos = rng.pos + n
              /\ rng.pos = n * i
              /\ trials'[i'] = [k \in 1..n |-> Draw(fn, rng.seed, n * i + k - 1)]
       /\ pc' = "done" => rng'.pos = n' * iters']_vars

TwoSamplesDrawn ==
    /\ pc = "done"
    /\ n = 2
    /\ iters = 2
    /\ Len(trials) = 2
    /\ trials[1] # trials[2]
    /\ rng.pos = 4

\* C15 as stated: a run's result is the same whatever ran before it, so the
\* same call made right after a run gives what that run gave.
UnaffectedByEarlierRuns ==
    (pc = "done" /\ pass = 3) =>
        /\ estimates1 = first.e1
        /\ estimates2 = first.e2

\* C15: every run starts from empty lists and works on its own lists only;
\* the one thing that outlives a run is the state of the random generator,
\* which the run before has moved on: the same call made right after a run
\* gives what that run gave when the generator is in the state that run
\* started from.
OnlyGeneratorOutlives ==
    pass = 3 =>
        /\ Len(estimates1) = i
        /\ Len(trials) = i
        /\ fn # "SimulateSample" => Len(estimates2) = i
        /\ (pc = "done" /\ rng.seed = first.seed) =>
               (estimates1 = first.e1 /\ estimates2 = first.e2)

FollowingRunDiffers ==
    /\ pc = "done"
    /\ pass = 3
    /\ iters = 2
    /\ rng.seed # first.seed
    /\ estimates1 # first.e1

\* C16: every run that has entered its loop ends, after exactly iters passes
\* of the loop body.
RunTerminates ==
    [](pc = "loop" => <>(pc = "done" /\ i = iters /\ Len(trials) = iters))

RunOfTwoEnded ==
    /\ pc = "done"
    /\ iters = 2
    /\ i = 2
    /\ Len(trials) = 2
    /\ Len(estimates1) = 2

AllSame(xs) == \A j \in 1..Len(xs) : xs[j] = xs[1]

\* The entries of the two variance lists, sample by sample.
BiasedBelowUnbiased ==
    \A k \in 1..Len(trials) :
        /\ FLe(estimates1[k], estimates2[k])
        /\ estimates1[k] = estimates2[k] => AllSame(trials[k])

\* C19 as stated: in Estimate2 with n >= 2 the biased entries are below the
\* unbiased ones and so is the mean error, at every point of the run.
BiasedMeanErrorBelowAlways ==
    (fn = "Estimate2" /\ n >= 2 /\ pc \in {"loop", "done"}) =>
        /\ BiasedBelowUnbiased
        /\ FLe(MeanError(estimates1, FromInt(sigma * sigma)),
               MeanError(estimates2, FromInt(sigma * sigma)))

\* C19: in Estimate2 with n >= 2 every biased entry is less than or equal to
\* the unbiased entry of the same sample, equal only when all values of the
\* sample are equal, and once an iteration is completed the mean error of
\* the biased list is less than or equal to that of the unbiased list; with
\* no iteration completed both mean errors are nan and neither is less than
\* or equal to the other.
BiasedMeanErrorBelow ==
    (fn = "Estimate2" /\ n >= 2 /\ pc \in {"loop", "done"}) =>
        /\ BiasedBelowUnbiased
        /\ LET me1 == MeanError(estimates1, FromInt(sigma * sigma))
               me2 == MeanError(estimates2, FromInt(sigma * sigma))
           IN IF Len(estimates1) > 0
              THEN FLe(me1, me2)
              ELSE IsNaN(me1) /\ IsNaN(me2) /\ ~FLe(me1, me2)

BiasedStrictlyBelow ==
    /\ fn = "Estimate2"
    /\ pc = "done"
    /\ n = 3
    /\ Len(estimates1) = 2
    /\ FLess(estimates1[1], estimates2[1])
    /\ FLess(MeanError(estimates1, FromInt(sigma * sigma)),
             MeanError(estimates2, FromInt(sigma * sigma)))
---------------------------------------------------------------------------
(* SimulateGame and ManyGames: the goal-scoring exercise.                  *)

\* Bounds of the game model: the stop of range(1, 10000), scaled down, and
\* the draws followed in one game.
GamesStop == 4
MaxDraws == 4

\* for i in range(1, 10000)
RangeStart == 1
GameRangeFromZero == [start |-> 0, stop |-> GamesStop]
GameRange == [start |-> RangeStart, stop |-> GamesStop]

\* The literal 1 of "if t > 1".
One == FromInt(1)

\* Times random.expovariate(lam) can return: positive floats, among them one
\* of half a unit in the last place of the floats next below 1.
Tiny == Fin(Lo, 0 - 2 * Prec)
Half == Fin(Lo, 0 - Prec)
GameTimes == {Tiny, Half, One, FromInt(3)}
GameRates == {1, 2}

\* t += time_between_goals
ElapseReset(tt, d) == d
Elapse(tt, d) == FAdd(tt, d)

\* if t > 1: break
TimeUpAtOne(tt) == FGe(tt, One)
TimeUp(tt) == FLess(One, tt)

\* RMSE and MeanError of a list of ints against an int: the differences and
\* squares are exact integers, np.mean converts them to floats.
RMSEInts(ints, a) ==
    FSqrt(Mean([k \in 1..Len(ints) |-> FromInt((ints[k] - a) * (ints[k] - a))]))
MeanErrorInts(ints, a) ==
    Mean([k \in 1..Len(ints) |-> FromInt(ints[k] - a)])

\* SimulateGame(lam) is entered: goals = 0, t = 0.
EnterGame(l) ==
    /\ t' = Zero
    /\ goals' = 0
    /\ hist' = [NoHist EXCEPT !.calls = hist.calls + 1,
                              !.lams = hist.lams \cup {l}]

\* SimulateGame(lam) called on its own.
CallSimulateGame(l) ==
    /\ gpc = "idle"
    /\ gpc' = "game"
    /\ caller' = "direct"
    /\ glam' = l
    /\ EnterGame(l)
    /\ UNCHANGED <<gi, goalslist, gsummary, L>>
    /\ UNCHANGED <<simVars, errVars>>

\* ManyGames(lam) is called: goals = [] and the for loop starts.
CallManyGames(l) ==
    /\ gpc = "idle"
    /\ gpc' = "for"
    /\ caller' = "ManyGames"
    /\ glam' = l
    /\ gi' = GameRange.start
    /\ goalslist' = <<>>
    /\ hist' = NoHist
    /\ UNCHANGED <<gsummary, t, goals, L>>
    /\ UNCHANGED <<simVars, errVars>>

\* One pass of ManyGames' loop begins: SimulateGame(lam) is called.
NextGame ==
    /\ gpc = "for"
    /\ gi < GameRange.stop
    /\ gpc' = "game"
    /\ EnterGame(glam)
    /\ UNCHANGED <<caller, glam, gi, goalslist, gsummary, L>>
    /\ UNCHANGED <<simVars, errVars>>

\* One pass of while True: a time is drawn and added; past 1 the game is over
\* and goals is returned (and appended by ManyGames), otherwise a goal is
\* counted.
GamePass(d) ==
    /\ gpc = "game"
    /\ hist.draws < MaxDraws
    /\ t' = Elapse(t, d)
    /\ hist' = [hist EXCEPT !.draws = @ + 1,
                            !.within = IF FLe(Elapse(t, d), One) THEN @ + 1 ELSE @,
                            !.drawn = d,
                            !.before = t,
                            !.minDraw = IF FLess(d, @) THEN d ELSE @,
                            !.exact = @ /\ AddExact(t, d)]
    /\ IF TimeUp(Elapse(t, d))
       THEN /\ L' = goals
            /\ goals' = goals
            /\ IF caller = "ManyGames"
               THEN /\ goalslist' = Append(goalslist, goals)
                    /\ gi' = gi + 1
                    /\ gpc' = "for"
               ELSE /\ gpc' = "done"
                    /\ UNCHANGED <<goalslist, gi>>
       ELSE /\ goals' = goals + 1
            /\ UNCHANGED <<L, goalslist, gi, gpc>>
    /\ UNCHANGED <<caller, glam, gsummary>>
    /\ UNCHANGED <<simVars, errVars>>

\* ManyGames' loop is over: RMSE and MeanError of the list are printed.
EndGames ==
    /\ gpc = "for"
    /\ gi >= GameRange.stop
    /\ gpc' = "done"
    /\ gsummary' = [set |-> TRUE, list |-> goalslist,
                    rmse |-> RMSEInts(goalslist, glam),
                    me |-> MeanErrorInts(goalslist, glam)]
    /\ UNCHANGED <<caller, glam, gi, goalslist, t, goals, L, hist>>
    /\ UNCHANGED <<simVars, errVars>>

NextGames ==
    \/ \E l \in GameRates : CallSimulateGame(l)
    \/ \E l \in GameRates : CallManyGames(l)
    \/ NextGame
    \/ \E d \in GameTimes : GamePass(d)
    \/ EndGames

SpecGame == Init /\ [][NextGames]_vars
---------------------------------------------------------------------------
\* Claims about SimulateGame and ManyGames, checked under SpecGame.

\* k * a <= 1, computed exactly (a finite and positive, or no draw yet).
TimesAtMostOne(k, a) ==
    \/ IsInf(a)
    \/ IsFinite(a) /\ (IF a.e >= 0 THEN k * a.m * 2 ^ a.e <= 1
                       ELSE k * a.m <= 2 ^ (0 - a.e))

\* A game has been played to its end.
GameOver == gpc \in {"for", "done"} /\ hist.draws > 0

\* A pass of while True is taken.
IsGamePass == gpc = "game" /\ hist'.draws = hist.draws + 1

\* C12: SimulateGame returns the number of draws whose running total is at
\* most 1, a goal at exactly t = 1 included and the draw that takes the total
\* past 1 excluded: a non-negative integer, one less than the draws made.
GoalsWithinGame ==
    /\ gpc = "game" =>
           (goals = hist.within /\ goals = hist.draws /\ ~FLess(One, t))
    /\ GameOver =>
           /\ L = hist.within
           /\ L = hist.draws - 1
           /\ L \in Nat
           /\ FLess(One, t)
           /\ FLe(hist.before, One)

GoalAtOneCounted ==
    /\ gpc = "done"
    /\ caller = "direct"
    /\ hist.before = One
    /\ hist.draws = 3
    /\ L = 2

\* C17 as stated: with every draw at least a fixed positive amount, every
\* pass makes t strictly greater, goals never decreases and goals is at most
\* 1 divided by that amount.
GameTimeStrictlyIncreases ==
    [][IsGamePass =>
          /\ FLess(Zero, hist'.minDraw)
          /\ FLess(t, t')
          /\ goals' >= goals
          /\ TimesAtMostOne(goals', hist'.minDraw)]_vars

\* C17: with every draw positive, t and goals never decrease; t is strictly
\* greater after every pass whose addition does not round, and as long as no
\* addition of the game has rounded, goals, and the draws made less one, are
\* at most 1 divided by the least draw.
GameTimeNeverDecreases ==
    [][IsGamePass =>
          /\ FLess(Zero, hist'.minDraw)
          /\ FGe(t', t)
          /\ goals' >= goals
          /\ AddExact(t, hist'.drawn) => FLess(t, t')
          /\ hist'.exact =>
                 /\ TimesAtMostOne(goals', hist'.minDraw)
                 /\ TimesAtMostOne(hist'.draws - 1, hist'.minDraw)]_vars

TwoExactGoals ==
    /\ gpc = "game"
    /\ hist.draws = 2
    /\ hist.exact
    /\ hist.minDraw = Half
    /\ goals = 2
    /\ t = One

\* C18: ManyGames calls SimulateGame once per pass of its loop, always with
\* its own lam, and appends the one result: the list handed to RMSE and
\* MeanError holds one entry per pass of range(1, stop), stop - 1 entries
\* and not stop.
OneGamePerPass ==
    caller = "ManyGames" =>
        /\ Len(goalslist) = gi - RangeStart
        /\ hist.calls = Len(goalslist) + (IF gpc = "game" THEN 1 ELSE 0)
        /\ hist.lams \subseteq {glam}
        /\ gpc = "done" =>
               /\ gsummary.set
               /\ gsummary.list = goalslist
               /\ Len(gsummary.list) = GamesStop - 1
               /\ Len(gsummary.list) # GamesStop

AllGamesPlayed ==
    /\ gpc = "done"
    /\ caller = "ManyGames"
    /\ gsummary.set
    /\ Len(gsummary.list) = GamesStop - 1
    /\ gsummary.list[1] # gsummary.list[2]
    /\ hist.calls = GamesStop - 1
    /\ hist.lams = {glam}
====
